---- MODULE Spec2Model ----
(***************************************************************************)
(* Model of src/app.py: the resume generator's section extractor           *)
(* (parse_markdown), prompt builder (build_prompt), template renderer      *)
(* (fill_latex_template), model client (call_deepseek_api under the        *)
(* tenacity retry decorator) and the Streamlit orchestrator (main).        *)
(***************************************************************************)
EXTENDS Integers, Sequences, FiniteSets, TLC

VARIABLES
    \* ---- one invocation of the decorated call_deepseek_api ----
    api_key,        \* the credential argument
    prompt,         \* the prompt argument
    pc,             \* "idle" | "attempt" | "sleep" | "returned" | "raised"
    outcomes,       \* per-attempt outcomes of the function body, in order
    net_calls,      \* number of requests.post calls issued by this invocation
    slept,          \* seconds slept between attempts so far
    raised,         \* exception that left the decorated function (or NoExc)
    \* ---- one script run of main() ----
    mpc,            \* position inside main()
    uploaded,       \* TRUE iff a base resume file was uploaded
    resume_len,     \* len(base_resume) when uploaded
    job_data,       \* dict returned by parse_markdown for the selected job
    env,            \* files and tools around the process
    messages,       \* st.success / st.error messages shown during this run
    \* ---- pure functions applied to drawn inputs ----
    md_content,     \* input of parse_markdown
    parsed,         \* result of parse_markdown (record with the keys present)
    built,          \* result of build_prompt
    template,       \* template text: sequence of literal / variable parts
    data,           \* render context
    rendered,       \* result of fill_latex_template
    ppc             \* position of the pure-function driver

callVars == <<api_key, prompt, pc, outcomes, net_calls, slept, raised>>
mainVars == <<mpc, uploaded, resume_len, job_data, env, messages>>
pureVars == <<md_content, parsed, built, template, data, rendered, ppc>>
vars == <<callVars, mainVars, pureVars>>

Min(a, b) == IF a < b THEN a ELSE b
Max(a, b) == IF a > b THEN a ELSE b
Range(s) == {s[i] : i \in 1..Len(s)}

(***************************************************************************)
(* Program constants                                                       *)
(***************************************************************************)
KeyLen == 64
MaxPromptLen == 4000
MinContentLen == 100
MaxAttempts == 3
WaitMin == 4
WaitMax == 10
TextExcerpt == 200
RefusalExcerpt == 500
ScaffoldLen == 310

(***************************************************************************)
(* Exceptions and messages                                                 *)
(***************************************************************************)
\* str(e) of an exception: a tag for the fixed text and the values formatted into it
Msg(text, n, detail, excerpt) ==
    [text |-> text, n |-> n, detail |-> detail, excerpt |-> excerpt]

\* cls: the Python class raised; kind: the failure kind of the raise site
Exc(cls, kind, msg) == [cls |-> cls, kind |-> kind, msg |-> msg]

NoMsg == Msg("", 0, "", 0)
NoExc == Exc("None", "None", NoMsg)

\* a transport failure caught by one of the except clauses after requests.post
ConnectionErrorOf(text, detail) ==
    Exc("ConnectionError", "TransientNetworkError", Msg(text, 0, detail, 0))

(***************************************************************************)
(* Remote responses                                                        *)
(***************************************************************************)
NoContent == [len |-> 0, blank |-> TRUE, refusal |-> FALSE]

Contents ==
    { [len |-> 0,   blank |-> TRUE,  refusal |-> FALSE],
      [len |-> 150, blank |-> TRUE,  refusal |-> FALSE],
      [len |-> 99,  blank |-> FALSE, refusal |-> FALSE],
      [len |-> 50,  blank |-> FALSE, refusal |-> TRUE],
      [len |-> 100, blank |-> FALSE, refusal |-> FALSE],
      [len |-> 100, blank |-> FALSE, refusal |-> TRUE],
      [len |-> 600, blank |-> FALSE, refusal |-> TRUE] }

Statuses == {200, 401, 403, 429, 500, 503, 404}

Response(status, body, ctype_json, text_len, error, choices, first, content) ==
    [status |-> status, body |-> body, ctype_json |-> ctype_json,
     text_len |-> text_len, error |-> error, choices |-> choices,
     first |-> first, content |-> content]

NoResponse == Response(0, "none", FALSE, 0, "absent", "absent", "none", NoContent)

\* bodies that response.json() rejects
UnparseableResponses ==
    { Response(s, "unparseable", TRUE, 300, "absent", "absent", "none", NoContent) :
        s \in Statuses }
    \cup
    { Response(s, "unparseable", FALSE, 50, "absent", "absent", "none", NoContent) :
        s \in {200, 500} }

\* JSON documents that are not objects
NonMappingResponses ==
    { Response(s, "list", TRUE, 50, "absent", "absent", "none", NoContent) :
        s \in Statuses }
    \cup
    { Response(s, "string", TRUE, 50, "absent", "absent", "none", NoContent) :
        s \in {200, 500} }

\* JSON objects of an error reply: the "error" entry absent, a mapping, or something else
ErrorResponses ==
    { Response(s, "dict", TRUE, 50, e, "absent", "none", NoContent) :
        s \in Statuses \ {200}, e \in {"absent", "mapping", "other"} }

\* JSON objects of a 200 reply, by the shape of "choices"
ShapeResponses ==
    { Response(200, "dict", TRUE, 50, "absent", c, "none", NoContent) :
        c \in {"absent", "notlist", "empty"} }
    \cup
    { Response(200, "dict", TRUE, 50, "absent", "list", f, NoContent) :
        f \in {"no_message", "no_content"} }

ContentResponses ==
    { Response(200, "dict", TRUE, 50, "absent", "list", "ok", c) : c \in Contents }

Responses ==
    UnparseableResponses \cup NonMappingResponses \cup ErrorResponses
        \cup ShapeResponses \cup ContentResponses

\* what requests.post does: raises one of these, or returns a response
TransportFailures == {"Timeout", "ConnectionError", "SSLError", "RequestException"}

Transports ==
    { [raises |-> f, response |-> NoResponse] : f \in TransportFailures }
    \cup { [raises |-> "none", response |-> r] : r \in Responses }

(***************************************************************************)
(* call_deepseek_api: the function body (one attempt)                      *)
(***************************************************************************)
\* truthiness of the api_key argument
Truthy(key) == IF key.type = "str" THEN key.len > 0 ELSE key.truthy

\* the validation with the prompt budget check left out
validate_no_budget(p, key) ==
    IF ~Truthy(key)
    THEN Exc("ValueError", "InvalidCredential", Msg("api_key_empty", 0, "", 0))
    ELSE IF key.type # "str" \/ key.len # KeyLen
    THEN Exc("ValueError", "InvalidCredential", Msg("api_key_format", 0, "", 0))
    ELSE IF p.len = 0
    THEN Exc("ValueError", "InvalidInput", Msg("prompt_empty", 0, "", 0))
    ELSE NoExc

\* lines 77-84: the first failing check raises
validate(p, key) ==
    IF ~Truthy(key)
    THEN Exc("ValueError", "InvalidCredential", Msg("api_key_empty", 0, "", 0))
    ELSE IF key.type # "str" \/ key.len # KeyLen
    THEN Exc("ValueError", "InvalidCredential", Msg("api_key_format", 0, "", 0))
    ELSE IF p.len = 0
    THEN Exc("ValueError", "InvalidInput", Msg("prompt_empty", 0, "", 0))
    ELSE IF p.len > MaxPromptLen
    THEN Exc("ValueError", "InvalidInput", Msg("prompt_too_long", p.len, "", 0))
    ELSE NoExc

\* lines 106-113: except clauses are tried in order; requests' SSLError is a
\* subclass of its ConnectionError, so the second clause catches it
transport_error(f) ==
    CASE f = "Timeout" -> ConnectionErrorOf("timeout", "")
      [] f \in {"ConnectionError", "SSLError"} -> ConnectionErrorOf("connection_failed", "")
      [] OTHER -> ConnectionErrorOf("unknown_network_error", f)

\* lines 126-132
error_type(status) ==
    CASE status = 401 -> "key_invalid_or_expired"
      [] status = 403 -> "permission_denied"
      [] status = 429 -> "rate_limited"
      [] status = 500 -> "server_internal_error"
      [] status = 503 -> "service_unavailable"
      [] OTHER -> "unknown_api_error"

\* lines 156-173
check_content(c) ==
    IF c.blank
    THEN Exc("ValueError", "EmptyGeneration", Msg("content_empty", 0, "", 0))
    ELSE IF c.len < MinContentLen
    THEN Exc("ValueError", "GenerationTooShort",
             Msg("content_too_short", c.len, "", Min(c.len, TextExcerpt)))
    ELSE IF c.refusal
    THEN Exc("ValueError", "ModelRefused",
             Msg("model_refused", 0, "", Min(c.len, RefusalExcerpt)))
    ELSE NoExc

\* lines 116-153: the checks on the response, in order
check_response(r) ==
    IF r.body = "unparseable"
    THEN Exc("ValueError", "MalformedResponse",
             Msg("response_parse_failed", r.status,
                 IF r.ctype_json THEN "" ELSE "non_json_content_type",
                 Min(r.text_len, TextExcerpt)))
    ELSE IF r.status # 200
    THEN IF r.body # "dict" \/ r.error = "other"
         THEN \* .get on a list or str, or on a non-mapping "error" entry
              Exc("AttributeError", "Unclassified", Msg("no_attribute_get", 0, "", 0))
         ELSE Exc("ConnectionError", "RemoteServiceError",
                  Msg("api_request_failed", r.status, error_type(r.status), 0))
    ELSE IF r.body # "dict"
    THEN Exc("ValueError", "MalformedResponse", Msg("response_not_dict", 0, r.body, 0))
    ELSE IF r.choices = "absent"
    THEN Exc("KeyError", "MalformedResponse", Msg("choices_missing", 0, "", TextExcerpt))
    ELSE IF r.choices # "list"
    THEN Exc("IndexError", "MalformedResponse", Msg("choices_empty", 0, "", 0))
    ELSE IF r.first = "no_message"
    THEN Exc("KeyError", "MalformedResponse", Msg("message_missing", 0, "", 0))
    ELSE IF r.first = "no_content"
    THEN Exc("ValueError", "MalformedResponse", Msg("content_missing", 0, "", 0))
    ELSE check_content(r.content)

\* one run of the function body against what the transport does
Outcome(net, transport, exc, ret) ==
    [net |-> net, transport |-> transport, exc |-> exc, ret |-> ret]

NoTransport == [raises |-> "none", response |-> NoResponse]

call_deepseek_api(p, key, t) ==
    IF validate(p, key) # NoExc
    THEN Outcome(FALSE, NoTransport, validate(p, key), NoContent)
    ELSE IF t.raises # "none"
    THEN Outcome(TRUE, t, transport_error(t.raises), NoContent)
    ELSE IF check_response(t.response) # NoExc
    THEN Outcome(TRUE, t, check_response(t.response), NoContent)
    ELSE Outcome(TRUE, t, NoExc, t.response.content)

(***************************************************************************)
(* The tenacity decorator (line 70)                                        *)
(***************************************************************************)
\* retry= is not given: every exception of the body is retried
should_retry(exc) == exc # NoExc

\* a stop condition that lets one attempt too many through
should_stop_late(attempt_number) == attempt_number > MaxAttempts

\* a stop condition that gives up one attempt too early
should_stop_early(attempt_number) == attempt_number >= MaxAttempts - 1

\* stop_after_attempt(3)
should_stop(attempt_number) == attempt_number >= MaxAttempts

RECURSIVE Pow2(_)
Pow2(n) == IF n <= 0 THEN 1 ELSE 2 * Pow2(n - 1)

\* wait_exponential(multiplier=1, min=4, max=10)
wait_exponential(attempt_number) ==
    Max(Max(0, WaitMin), Min(Pow2(attempt_number - 1), WaitMax))

\* reraise is not given: the last failure leaves wrapped in RetryError, whose
\* str() names the class of the wrapped exception and not its message
RetryError(last) ==
    Exc("RetryError", last.kind, Msg("RetryError", 0, last.cls, 0))

ApiKeys ==
    { [type |-> "str", len |-> n, truthy |-> n > 0] : n \in {0, 10, 63, 64, 65} }
    \cup { [type |-> "other", len |-> 64, truthy |-> b] : b \in BOOLEAN }

Prompts == { [len |-> n] : n \in {0, 4000, 4001} }

CallIdle ==
    /\ pc = "idle"
    /\ outcomes = <<>>
    /\ net_calls = 0
    /\ slept = 0
    /\ raised = NoExc

\* one attempt: the body runs, then the decorator decides
AttemptStep ==
    /\ pc = "attempt"
    /\ \E t \in Transports :
         LET o == call_deepseek_api(prompt, api_key, t)
             n == Len(outcomes) + 1
         IN /\ outcomes' = Append(outcomes, o)
            /\ net_calls' = net_calls + (IF o.net THEN 1 ELSE 0)
            /\ IF o.exc = NoExc
               THEN pc' = "returned" /\ raised' = NoExc
               ELSE IF ~should_retry(o.exc)
               THEN pc' = "raised" /\ raised' = o.exc
               ELSE IF should_stop(n)
               THEN pc' = "raised" /\ raised' = RetryError(o.exc)
               ELSE pc' = "sleep" /\ raised' = NoExc
    /\ UNCHANGED <<api_key, prompt, slept>>

\* the decorator sleeps, then calls the body again
SleepStep ==
    /\ pc = "sleep"
    /\ slept' = slept + wait_exponential(Len(outcomes))
    /\ pc' = "attempt"
    /\ UNCHANGED <<api_key, prompt, outcomes, net_calls, raised>>

(***************************************************************************)
(* parse_markdown (lines 22-36)                                            *)
(*                                                                         *)
(* Text is a sequence of characters over a small alphabet: "*", "-", " ",  *)
(* "n" (the newline), "x" (any other character), and "D", "H", "K" for the *)
(* bodies of the three labels, which the patterns only match as a whole.   *)
(***************************************************************************)
MaxBullets == 2

IsSpace(c) == c \in {" ", "n"}

MinOf(S) == CHOOSE a \in S : \A b \in S : a <= b
MaxOf(S) == CHOOSE a \in S : \A b \in S : a >= b

\* the literal \*<label>\* at position i
LabelAt(s, i, L) ==
    /\ i >= 1 /\ i + 2 <= Len(s)
    /\ s[i] = "*" /\ s[i + 1] = L /\ s[i + 2] = "*"

\* length of the longest run of whitespace starting at p: what a greedy \s* takes
WsRun(s, p) ==
    MaxOf({q \in p..(Len(s) + 1) : \A r \in p..(q - 1) : IsSpace(s[r])}) - p

\* str.strip()
Strip(s) ==
    LET keep == {i \in 1..Len(s) : ~IsSpace(s[i])}
    IN IF keep = {} THEN <<>> ELSE SubSeq(s, MinOf(keep), MaxOf(keep))

\* positions j of a "\n" that "\n\*" matches at
NewlineStar(s) == {j \in 1..(Len(s) - 1) : s[j] = "n" /\ s[j + 1] = "*"}

\* line 27: \*D\*\s*(.*?)\n\* with DOTALL, tried at the label at i.  \s* takes
\* k characters (as many as possible first), .*? then runs to the first "\n\*".
DescTakes(s, i) ==
    {k \in 0..WsRun(s, i + 3) : \E j \in NewlineStar(s) : j >= i + 3 + k}

DescGroup(s, i) ==
    LET k == MaxOf(DescTakes(s, i))
        j == MinOf({j \in NewlineStar(s) : j >= i + 3 + k})
    IN SubSeq(s, i + 3 + k, j - 1)

\* re.search: the leftmost position where the pattern matches
DescMatches(s) == {i \in 1..Len(s) : LabelAt(s, i, "D") /\ DescTakes(s, i) # {}}

\* "- .*\n" at p: the position of the newline ending the line, 0 when no match
BulletLineEnd(s, p) ==
    IF /\ p >= 1 /\ p + 1 <= Len(s)
       /\ s[p] = "-" /\ s[p + 1] = " "
       /\ \E q \in (p + 2)..Len(s) : s[q] = "n"
    THEN MinOf({q \in (p + 2)..Len(s) : s[q] = "n"})
    ELSE 0

\* (?:- .*\n)+ is greedy: the last position of the run of bullet lines from p
RECURSIVE BulletLinesEnd(_, _)
BulletLinesEnd(s, p) ==
    IF BulletLineEnd(s, p) = 0 THEN p - 1
    ELSE BulletLinesEnd(s, BulletLineEnd(s, p) + 1)

\* lines 30, 33: \*L\*\s*((?:- .*\n)+) tried at the label at i
ListStart(s, i) == i + 3 + WsRun(s, i + 3)
ListMatches(s, L) ==
    {i \in 1..Len(s) : LabelAt(s, i, L) /\ BulletLineEnd(s, ListStart(s, i)) # 0}
ListGroup(s, i) == SubSeq(s, ListStart(s, i), BulletLinesEnd(s, ListStart(s, i)))

\* str.split("- ")
RECURSIVE Split(_)
Split(s) ==
    LET at == {j \in 1..(Len(s) - 1) : s[j] = "-" /\ s[j + 1] = " "}
    IN IF at = {} THEN <<s>>
       ELSE <<SubSeq(s, 1, MinOf(at) - 1)>> \o Split(SubSeq(s, MinOf(at) + 2, Len(s)))

MapStrip(ss) == [i \in 1..Len(ss) |-> Strip(ss[i])]
NonEmpty(e) == e # <<>>

\* [s.strip() for s in group.split("- ") if s.strip()]
entries(group) == SelectSeq(MapStrip(Split(group)), NonEmpty)

\* the dict returned: has is the set of keys present
parse_markdown(s) ==
    LET d == DescMatches(s)
        h == ListMatches(s, "H")
        k == ListMatches(s, "K")
    IN [has |-> (IF d # {} THEN {"job_desc"} ELSE {})
                  \cup (IF h # {} THEN {"hard_skills"} ELSE {})
                  \cup (IF k # {} THEN {"keywords"} ELSE {}),
        job_desc |-> IF d # {} THEN Strip(DescGroup(s, MinOf(d))) ELSE <<>>,
        hard_skills |-> IF h # {} THEN entries(ListGroup(s, MinOf(h))) ELSE <<>>,
        keywords |-> IF k # {} THEN entries(ListGroup(s, MinOf(k))) ELSE <<>>]

(***************************************************************************)
(* build_prompt (lines 38-57)                                              *)
(***************************************************************************)
\* number of characters a symbol of the alphabet stands for
CharLen(c) == CASE c = "D" -> 5 [] c = "H" -> 4 [] c = "K" -> 6 [] OTHER -> 1

RECURSIVE TextLen(_)
TextLen(s) == IF s = <<>> THEN 0 ELSE CharLen(Head(s)) + TextLen(Tail(s))

\* ', '.join(items)
RECURSIVE Join(_)
Join(items) ==
    IF items = <<>> THEN <<>>
    ELSE IF Len(items) = 1 THEN items[1]
    ELSE items[1] \o <<",", " ">> \o Join(Tail(items))

Prompt(exc, len, job_desc, hard_skills, keywords) ==
    [exc |-> exc, len |-> len, job_desc |-> job_desc,
     hard_skills |-> hard_skills, keywords |-> keywords]

KeyError(key) == Exc("KeyError", "KeyError", Msg("key_error", 0, key, 0))

\* the f-string evaluates job_data['job_desc'], ['hard_skills'], ['keywords'] in order
build_prompt(base_len, jd) ==
    IF "job_desc" \notin jd.has THEN Prompt(KeyError("job_desc"), 0, <<>>, <<>>, <<>>)
    ELSE IF "hard_skills" \notin jd.has
    THEN Prompt(KeyError("hard_skills"), 0, <<>>, <<>>, <<>>)
    ELSE IF "keywords" \notin jd.has
    THEN Prompt(KeyError("keywords"), 0, <<>>, <<>>, <<>>)
    ELSE Prompt(NoExc,
                ScaffoldLen + TextLen(jd.job_desc) + TextLen(Join(jd.hard_skills))
                    + TextLen(Join(jd.keywords)) + base_len,
                jd.job_desc, Join(jd.hard_skills), Join(jd.keywords))

(***************************************************************************)
(* Job description documents                                               *)
(***************************************************************************)
DescTexts == {<<"x">>, <<"x", " ", "x">>, <<"x", "n", "x">>}
ItemTexts == {<<"x">>, <<>>, <<"x", "-", "x">>}

\* 1..MaxBullets bullet items
ItemLists == UNION {[1..n -> ItemTexts] : n \in 1..MaxBullets}

RECURSIVE BulletLines(_)
BulletLines(items) ==
    IF items = <<>> THEN <<>>
    ELSE <<"-", " ">> \o Head(items) \o <<"n">> \o BulletLines(Tail(items))

DescBlock(text) == <<"*", "D", "*", " ">> \o text \o <<"n">>
ListBlock(L, items) == <<"*", L, "*", "n">> \o BulletLines(items)

Block(L, text, hs, ks) ==
    CASE L = "D" -> DescBlock(text)
      [] L = "H" -> ListBlock("H", hs)
      [] OTHER -> ListBlock("K", ks)

RECURSIVE Blocks(_, _, _, _)
Blocks(order, text, hs, ks) ==
    IF order = <<>> THEN <<>>
    ELSE Block(Head(order), text, hs, ks) \o Blocks(Tail(order), text, hs, ks)

\* the blocks present, in their order in the file
Orders ==
    {o \in UNION {[1..n -> {"D", "H", "K"}] : n \in 0..3} :
        \A i, j \in 1..Len(o) : i # j => o[i] # o[j]}

\* with or without the newline that ends the last line
Document(order, text, hs, ks, final_newline) ==
    LET all == Blocks(order, text, hs, ks)
    IN IF final_newline \/ all = <<>> THEN all ELSE SubSeq(all, 1, Len(all) - 1)

Documents ==
    {Document(o, t, hs, ks, f) :
        o \in Orders, t \in DescTexts, hs \in ItemLists, ks \in ItemLists, f \in BOOLEAN}

(***************************************************************************)
(* fill_latex_template (lines 59-65)                                       *)
(*                                                                         *)
(* A template is a sequence of parts, each literal text or a placeholder   *)
(* {{ var }}; values are strings.                                          *)
(***************************************************************************)
MaxParts == 3

Names == {"name", "contact", "experiences", "skills", "optimized_resume"}

Lit(text) == [var |-> "", lit |-> text]
Var(name) == [var |-> name, lit |-> ""]

NoTemplate == [exists |-> FALSE, parts |-> <<>>]
NoData == [has |-> {}, val |-> [k \in Names |-> ""]]
Rendered(exc, out) == [exc |-> exc, out |-> out]

FileNotFoundError(path) ==
    Exc("FileNotFoundError", "FileNotFoundError", Msg("no_such_file", 0, path, 0))

\* jinja2's Template uses the default Undefined: a name the context lacks
\* renders as the empty string; render() does not escape the values
render_part(part, d) ==
    IF part.var = "" THEN part.lit
    ELSE IF part.var \in d.has THEN d.val[part.var]
    ELSE ""

fill_latex_template(t, d) ==
    IF ~t.exists THEN Rendered(FileNotFoundError("template"), <<>>)
    ELSE Rendered(NoExc, [i \in 1..Len(t.parts) |-> render_part(t.parts[i], d)])

Placeholders(t) == {t.parts[i].var : i \in 1..Len(t.parts)} \ {""}

(***************************************************************************)
(* Values of the variables a specification does not use                    *)
(***************************************************************************)
NoJobData == [has |-> {}, job_desc |-> <<>>, hard_skills |-> <<>>, keywords |-> <<>>]
NoEnv == [template_file |-> "unread", xelatex |-> "unrun", pdf |-> "unread"]

CallOff ==
    /\ api_key = [type |-> "str", len |-> 0, truthy |-> FALSE]
    /\ prompt = [len |-> 0]
    /\ CallIdle

MainOff ==
    /\ mpc = "off"
    /\ uploaded = FALSE
    /\ resume_len = 0
    /\ job_data = NoJobData
    /\ env = NoEnv
    /\ messages = <<>>

PureOff ==
    /\ ppc = "off"
    /\ md_content = <<>>
    /\ parsed = NoJobData
    /\ built = Prompt(NoExc, 0, <<>>, <<>>, <<>>)
    /\ template = NoTemplate
    /\ data = NoData
    /\ rendered = Rendered(NoExc, <<>>)

(***************************************************************************)
(* SpecCall: call_deepseek_api invoked once with any arguments             *)
(***************************************************************************)
InitCall ==
    /\ api_key \in ApiKeys
    /\ prompt \in Prompts
    /\ pc = "attempt"
    /\ outcomes = <<>>
    /\ net_calls = 0
    /\ slept = 0
    /\ raised = NoExc
    /\ MainOff
    /\ PureOff

Attempt == AttemptStep /\ UNCHANGED <<mainVars, pureVars>>
Sleep == SleepStep /\ UNCHANGED <<mainVars, pureVars>>

NextCall == Attempt \/ Sleep

SpecCall == InitCall /\ [][NextCall]_vars

(***************************************************************************)
(* Properties of call_deepseek_api (checked under SpecCall)                *)
(***************************************************************************)
DeterministicKinds ==
    {"InvalidCredential", "InvalidInput", "MalformedResponse", "RemoteServiceError",
     "EmptyGeneration", "GenerationTooShort", "ModelRefused"}

\* C1: an attempt that ends in a validation failure or in a content/protocol
\* failure is the last attempt of the invocation: nothing is slept or retried
\* after it, and when it is the first attempt the body has run exactly once
\* with at most one network call.
C1_DeterministicFailuresNotRetried ==
    \A i \in 1..Len(outcomes) :
        outcomes[i].exc.kind \in DeterministicKinds
            => /\ i = Len(outcomes)
               /\ pc = "raised"
               /\ (i = 1 => net_calls <= 1)

\* the arguments C2 speaks of
InvalidArguments ==
    \/ api_key.type = "str" /\ api_key.len = 0
    \/ ~(api_key.type = "str" /\ api_key.len = KeyLen)
    \/ prompt.len = 0
    \/ prompt.len > MaxPromptLen

\* C2: with an empty or not-64-character credential, or an empty or over-long
\* prompt, no network call is ever issued, the invocation never returns a
\* value, and every attempt made ended in a failure.
C2_InvalidArgumentsNoNetwork ==
    InvalidArguments
        => /\ net_calls = 0
           /\ pc # "returned"
           /\ \A i \in 1..Len(outcomes) : ~outcomes[i].net /\ outcomes[i].exc # NoExc
           /\ (pc = "raised" => raised # NoExc)

C2_Witness ==
    /\ InvalidArguments
    /\ prompt.len > MaxPromptLen
    /\ api_key.len = KeyLen /\ api_key.type = "str"
    /\ pc = "raised"
    /\ Len(outcomes) = MaxAttempts

TimedOut(o) == o.net /\ o.transport.raises = "Timeout"

\* a 200 response that is well formed and whose content passes the content policy
GoodResponse(o) ==
    /\ o.net
    /\ o.transport.raises = "none"
    /\ o.transport.response.status = 200
    /\ o.transport.response.body = "dict"
    /\ o.transport.response.choices = "list"
    /\ o.transport.response.first = "ok"
    /\ ~o.transport.response.content.blank
    /\ o.transport.response.content.len >= MinContentLen
    /\ ~o.transport.response.content.refusal

\* C3: after timeouts on the first two attempts a third attempt is made, and
\* when it gets a good response the invocation returns that content, having
\* made exactly 3 attempts and 3 network calls.
C3_TwoTimeoutsThenSuccess ==
    /\ (Len(outcomes) = 2 /\ TimedOut(outcomes[1]) /\ TimedOut(outcomes[2]))
          => pc \in {"sleep", "attempt"}
    /\ (Len(outcomes) = 3 /\ TimedOut(outcomes[1]) /\ TimedOut(outcomes[2])
            /\ GoodResponse(outcomes[3]))
          => /\ pc = "returned"
             /\ raised = NoExc
             /\ outcomes[3].ret = outcomes[3].transport.response.content
             /\ net_calls = 3

C3_Witness ==
    /\ Len(outcomes) = 3
    /\ TimedOut(outcomes[1]) /\ TimedOut(outcomes[2])
    /\ GoodResponse(outcomes[3])
    /\ pc = "returned"

\* C4: every attempt that received a non-200 response, whatever its body, is
\* classified RemoteServiceError with the reason mapped to its status code (the
\* generic label for an unlisted code); no other failure kind and no
\* unclassified exception results. Stated here for the bodies response.json()
\* parses (a JSON mapping, a JSON list or string, a mapping whose "error" entry
\* is no mapping); an unparseable body is classified MalformedResponse before
\* the status is looked at (lines 116-122).
C4_Non200IsRemoteServiceError ==
    \A i \in 1..Len(outcomes) :
        LET o == outcomes[i]
            r == o.transport.response
        IN (o.net /\ o.transport.raises = "none" /\ r.status # 200
                /\ r.body \in {"dict", "list", "string"})
             => /\ o.exc.kind = "RemoteServiceError"
                /\ o.exc.msg.n = r.status
                /\ o.exc.msg.detail = error_type(r.status)

\* C10: at most 3 attempts and at most one network call per attempt; once 3
\* attempts are made the invocation is over, and when all 3 failed at
\* transport level it is over with a failure.
C10_AtMostThreeAttempts ==
    /\ Len(outcomes) <= 3
    /\ net_calls <= Len(outcomes)
    /\ net_calls = Cardinality({i \in 1..Len(outcomes) : outcomes[i].net})
    /\ Len(outcomes) = 3 => pc \in {"returned", "raised"}
    /\ (Len(outcomes) = 3
          /\ \A i \in 1..3 : outcomes[i].exc.kind = "TransientNetworkError")
         => pc = "raised" /\ raised # NoExc

C10_Witness ==
    /\ Len(outcomes) = 3
    /\ \A i \in 1..3 : outcomes[i].exc.kind = "TransientNetworkError"
    /\ net_calls = 3
    /\ pc = "raised"

(***************************************************************************)
(* SpecExtract: parse_markdown, then build_prompt on its result            *)
(***************************************************************************)
ResumeLens == {0, 3600, 3700}

InitExtract ==
    /\ md_content \in Documents
    /\ ppc = "parse"
    /\ parsed = NoJobData
    /\ built = Prompt(NoExc, 0, <<>>, <<>>, <<>>)
    /\ template = NoTemplate
    /\ data = NoData
    /\ rendered = Rendered(NoExc, <<>>)
    /\ CallOff
    /\ MainOff

Parse ==
    /\ ppc = "parse"
    /\ parsed' = parse_markdown(md_content)
    /\ ppc' = "build"
    /\ UNCHANGED <<md_content, built, template, data, rendered, callVars, mainVars>>

Build ==
    /\ ppc = "build"
    /\ \E n \in ResumeLens : built' = build_prompt(n, parsed)
    /\ ppc' = "built"
    /\ UNCHANGED <<md_content, parsed, template, data, rendered, callVars, mainVars>>

NextExtract == Parse \/ Build

SpecExtract == InitExtract /\ [][NextExtract]_vars

HasLabel(s, L) == \E i \in 1..Len(s) : LabelAt(s, i, L)

\* C9: for a document holding all three labeled blocks, in any order, with or
\* without a final newline, parse_markdown returns job_desc, hard_skills and
\* keywords all present, and neither list holds an empty entry.
C9_AllThreeBlocksExtracted ==
    (ppc # "parse" /\ HasLabel(md_content, "D") /\ HasLabel(md_content, "H")
        /\ HasLabel(md_content, "K"))
      => /\ parsed.has = {"job_desc", "hard_skills", "keywords"}
         /\ \A i \in 1..Len(parsed.hard_skills) : parsed.hard_skills[i] # <<>>
         /\ \A i \in 1..Len(parsed.keywords) : parsed.keywords[i] # <<>>

\* C7: build_prompt never fails; for a JobSpec with a field absent it returns a
\* Prompt whose segment for that field is empty.
C7_BuildPromptNeverFails ==
    ppc = "built"
      => /\ built.exc = NoExc
         /\ ("job_desc" \notin parsed.has => built.job_desc = <<>>)
         /\ ("hard_skills" \notin parsed.has => built.hard_skills = <<>>)
         /\ ("keywords" \notin parsed.has => built.keywords = <<>>)

(***************************************************************************)
(* SpecRender: fill_latex_template on any template and context             *)
(***************************************************************************)
RenderNames == {"name", "skills", "optimized_resume"}
Parts == {Lit("text")} \cup {Var(k) : k \in RenderNames}
Templates ==
    {[exists |-> e, parts |-> ps] :
        e \in BOOLEAN, ps \in UNION {[1..n -> Parts] : n \in 0..MaxParts}}
Contexts ==
    {[has |-> h, val |-> [k \in Names |-> IF k \in h THEN v[k] ELSE ""]] :
        h \in SUBSET RenderNames, v \in [RenderNames -> {"v"}]}
    \cup {[has |-> RenderNames, val |-> [k \in Names |-> IF k \in RenderNames THEN k ELSE ""]]}

InitRender ==
    /\ template \in Templates
    /\ data \in Contexts
    /\ rendered = Rendered(NoExc, <<>>)
    /\ ppc = "render"
    /\ md_content = <<>>
    /\ parsed = NoJobData
    /\ built = Prompt(NoExc, 0, <<>>, <<>>, <<>>)
    /\ CallOff
    /\ MainOff

Render ==
    /\ ppc = "render"
    /\ rendered' = fill_latex_template(template, data)
    /\ ppc' = "rendered"
    /\ UNCHANGED <<md_content, parsed, built, template, data, callVars, mainVars>>

NextRender == Render

SpecRender == InitRender /\ [][NextRender]_vars

\* C8: rendering a template whose placeholders are exactly the context's keys
\* succeeds with every value of the context in the output verbatim, and
\* rendering a template that references one placeholder the context lacks
\* fails with RenderError and returns no document.
C8_RenderRoundTrip ==
    (ppc = "rendered" /\ template.exists)
      => /\ Placeholders(template) = data.has
            => /\ rendered.exc = NoExc
               /\ \A k \in data.has : data.val[k] \in Range(rendered.out)
         /\ Cardinality(Placeholders(template) \ data.has) = 1
            => /\ rendered.exc.kind = "RenderError"
               /\ rendered.out = <<>>

(***************************************************************************)
(* main (lines 178-238): one script run in which the button is pressed     *)
(***************************************************************************)
\* the placeholders of templates/resume_template.tex: the keys main passes
MainTemplateParts ==
    <<Var("name"), Var("contact"), Var("experiences"), Var("skills"), Var("optimized_resume")>>

\* the render context built at lines 212-221
MainContext == [has |-> Names, val |-> [k \in Names |-> k]]

\* the job files: all three blocks, with and without the final newline, and
\* one with its description last
MainDocuments ==
    {Document(<<"D", "H", "K">>, <<"x">>, <<(<<"x">>)>>, <<(<<"x">>)>>, f) : f \in BOOLEAN}
    \cup {Document(<<"H", "K", "D">>, <<"x">>, <<(<<"x">>)>>, <<(<<"x">>)>>, TRUE)}

\* what st.text_input returns
KeyInputs == {[type |-> "str", len |-> n, truthy |-> n > 0] : n \in {0, 10, 64}}

UploadLens == {3600, 4000}

NameError(name) == Exc("NameError", "NameError", Msg("unbound_local", 0, name, 0))

Success == [level |-> "success", text |-> Msg("generation_done", 0, "", 0)]
\* st.error(f"... {str(e)}")
Error(e) == [level |-> "error", text |-> e.msg]
EnterKey == [level |-> "error", text |-> Msg("enter_api_key", 0, "", 0)]

Init ==
    /\ mpc = "button"
    /\ uploaded \in BOOLEAN
    /\ resume_len \in (IF uploaded THEN UploadLens ELSE {0})
    /\ \E doc \in MainDocuments : job_data = parse_markdown(doc)
    /\ api_key \in KeyInputs
    /\ prompt = [len |-> 0]
    /\ CallIdle
    /\ env = NoEnv
    /\ messages = <<>>
    /\ PureOff

\* the except clause of lines 236-238
Fail(e) ==
    /\ messages' = Append(messages, Error(e))
    /\ mpc' = "done"

\* lines 200-204
Click ==
    /\ mpc = "button"
    /\ IF ~Truthy(api_key)
       THEN messages' = Append(messages, EnterKey) /\ mpc' = "done"
       ELSE messages' = messages /\ mpc' = "build_prompt"
    /\ UNCHANGED <<uploaded, resume_len, job_data, env, callVars, pureVars>>

\* line 207; base_resume is bound only when a file was uploaded (lines 183-184)
BuildPrompt ==
    /\ mpc = "build_prompt"
    /\ LET b == build_prompt(resume_len, job_data)
       IN IF ~uploaded
          THEN Fail(NameError("base_resume")) /\ UNCHANGED <<prompt, pc>>
          ELSE IF b.exc # NoExc
          THEN Fail(b.exc) /\ UNCHANGED <<prompt, pc>>
          ELSE /\ prompt' = [len |-> b.len]
               /\ pc' = "attempt"
               /\ mpc' = "call"
               /\ messages' = messages
    /\ UNCHANGED <<uploaded, resume_len, job_data, env, api_key, outcomes, net_calls,
                   slept, raised, pureVars>>

\* line 209: the decorated function is running
CallAttempt == mpc = "call" /\ AttemptStep /\ UNCHANGED <<mainVars, pureVars>>
CallSleep == mpc = "call" /\ SleepStep /\ UNCHANGED <<mainVars, pureVars>>

\* line 209: the call is over, with a value or with an exception
CallOver ==
    /\ mpc = "call"
    /\ pc \in {"returned", "raised"}
    /\ IF pc = "raised" THEN Fail(raised)
       ELSE mpc' = "render" /\ messages' = messages
    /\ UNCHANGED <<uploaded, resume_len, job_data, env, callVars, pureVars>>

\* lines 212-221
RenderStep ==
    /\ mpc = "render"
    /\ \E exists \in BOOLEAN :
         LET r == fill_latex_template([exists |-> exists, parts |-> MainTemplateParts],
                                      MainContext)
         IN /\ env' = [env EXCEPT !.template_file = IF exists THEN "present" ELSE "missing"]
            /\ IF "hard_skills" \notin job_data.has THEN Fail(KeyError("hard_skills"))
               ELSE IF r.exc # NoExc THEN Fail(r.exc)
               ELSE mpc' = "compile" /\ messages' = messages
    /\ UNCHANGED <<uploaded, resume_len, job_data, callVars, pureVars>>

\* lines 224-229: subprocess.run raises only when xelatex cannot be started; its
\* exit status is not looked at.  output/resume.pdf is there afterwards when
\* xelatex wrote it or an earlier run left it.
Compile ==
    /\ mpc = "compile"
    /\ \E x \in {"missing", "ok", "fails"}, stale \in BOOLEAN :
         /\ env' = [env EXCEPT !.xelatex = x,
                               !.pdf = IF x = "ok" \/ stale THEN "present" ELSE "absent"]
         /\ IF x = "missing" THEN Fail(FileNotFoundError("xelatex"))
            ELSE mpc' = "finish" /\ messages' = messages
    /\ UNCHANGED <<uploaded, resume_len, job_data, callVars, pureVars>>

\* lines 232-234, and the except clause when output/resume.pdf cannot be opened
Finish ==
    /\ mpc = "finish"
    /\ IF env.pdf = "present"
       THEN messages' = Append(messages, Success)
       ELSE messages' = Append(Append(messages, Success),
                               Error(FileNotFoundError("output/resume.pdf")))
    /\ mpc' = "done"
    /\ UNCHANGED <<uploaded, resume_len, job_data, env, callVars, pureVars>>

Next ==
    \/ Click
    \/ BuildPrompt
    \/ CallAttempt
    \/ CallSleep
    \/ CallOver
    \/ RenderStep
    \/ Compile
    \/ Finish

Spec == Init /\ [][Next]_vars

\* C5: when call_deepseek_api ends the run in failure, the message main shows
\* is the message of the failure classified on the final attempt.
C5_FailureMessageIsFinalClassification ==
    (mpc = "done" /\ pc = "raised")
      => /\ messages # <<>>
         /\ messages[Len(messages)].level = "error"
         /\ messages[Len(messages)].text = outcomes[Len(outcomes)].exc.msg

\* C6: every run of the generate action ends with exactly one message shown,
\* the success message or one error message.
C6_ExactlyOneTerminalMessage ==
    mpc = "done" => Len(messages) = 1

====
